---- MODULE Spec2Model ----
(***************************************************************************)
(* A model of the general-errors library: GeneralError (an immutable error *)
(* record), its string formatting, and the ResultContainer combinators     *)
(* (success, failure, wrap, unwrap, collect, collectAny, compose,          *)
(* composeAny).                                                            *)
(*                                                                         *)
(* GeneralError objects live in a heap (a sequence of field bags; a        *)
(* reference is an index into it), so that "a new record is produced" and  *)
(* "the input is left unchanged" are statements about the model.  Every    *)
(* library function takes the heap it runs in and returns the heap it      *)
(* leaves together with its return value.                                  *)
(***************************************************************************)
EXTENDS Integers, Sequences, FiniteSets, TLC

VARIABLES
    stack,      \* what `new Error().stack` yields in this runtime ("" if none)
    last        \* the library call made: its arguments, heaps and return value

vars == <<stack, last>>

---------------------------------------------------------------------------
(* Bounds of the model.                                                    *)

MaxErrors == 2      \* longest error array handed to failure / wrap
MaxResults == 2     \* longest sequence (or mapping) of ResultContainers
MaxFormat == 2      \* longest array handed to GeneralError.toString
MaxDepth == 2       \* calls applied, one after another, to a first Failure

---------------------------------------------------------------------------
(* JavaScript values.                                                      *)

\* An optional string argument (`source?: string`): undefined or a string.
Undefined == [defined |-> FALSE, value |-> ""]
Some(s) == [defined |-> TRUE, value |-> s]

\* `x ?? y` on an optional string.
Nullish(x, y) == IF x.defined THEN x.value ELSE y

\* `s || x`: the string s when it is truthy (non-empty), else x.
OrElse(s, x) == IF s # "" THEN Some(s) ELSE x

\* Data carried by a successful ResultContainer.
JsUndefined == [t |-> "undefined"]
JsNull == [t |-> "null"]
JsNumber(n) == [t |-> "number", n |-> n]
JsBoolean(b) == [t |-> "boolean", b |-> b]
JsString(s) == [t |-> "string", s |-> s]
JsArray(items) == [t |-> "array", items |-> items]
\* A plain object: its own enumerable string-keyed properties in property
\* order (insertion order; the keys of the model are never integer-like).
JsObject(entries) == [t |-> "object", entries |-> entries]

\* `obj[key] = value` on a plain object given by its entries.
SetProperty(entries, key, value) ==
    IF \E i \in 1..Len(entries) : entries[i].key = key
    THEN [i \in 1..Len(entries) |->
            IF entries[i].key = key THEN [key |-> key, value |-> value]
            ELSE entries[i]]
    ELSE Append(entries, [key |-> key, value |-> value])

---------------------------------------------------------------------------
(* GeneralError.ts                                                         *)

\* getLocation: the stack of a fresh Error, or '' when there is none.
getLocation(stk) == IF stk # "" THEN stk ELSE ""

\* The constructor: code, location and source are optional.
GeneralError(message, code, location, source, stk) ==
    [code     |-> Nullish(code, ""),
     message  |-> message,
     location |-> Nullish(location, getLocation(stk)),
     source   |-> Nullish(source, "")]

\* GeneralError.toBag
toBag(data) ==
    [code |-> data.code, message |-> data.message,
     location |-> data.location, source |-> data.source]

\* `new GeneralError(...)`: the object is allocated at the end of the heap.
New(heap, fields) == Append(heap, fields)

\* Array.prototype.join on strings.
RECURSIVE Join(_, _)
Join(strs, delimiter) ==
    IF Len(strs) = 0 THEN ""
    ELSE IF Len(strs) = 1 THEN strs[1]
    ELSE strs[1] \o delimiter \o Join(Tail(strs), delimiter)

\* toStringOne printing the first bracket when code or source is set.
toStringOneCodeOrSource(data) ==
    LET code == IF data.code # "" \/ data.source # ""
                THEN "[" \o data.code \o " " \o data.source \o "] " ELSE ""
        location == IF data.location # ""
                    THEN "[" \o data.location \o "] " ELSE ""
    IN  code \o location \o data.message

\* GeneralError.toString, the branch for one record.
toStringOne(data) ==
    LET code == IF data.code # ""
                THEN "[" \o data.code \o " " \o data.source \o "] " ELSE ""
        location == IF data.location # ""
                    THEN "[" \o data.location \o "] " ELSE ""
    IN  code \o location \o data.message

\* GeneralError.toString: data is one record ([isArray |-> FALSE, items |->
\* <<r>>]) or an array of records.
toString(data, delimiter) ==
    IF data.isArray
    THEN Join([i \in 1..Len(data.items) |-> toStringOne(data.items[i])], delimiter)
    ELSE toStringOne(data.items[1])

---------------------------------------------------------------------------
(* error-factories.ts                                                      *)

\* A Symbol, and an Error object: its name, its message and its stack, which
\* an Error may lack.
JsSymbol(description) == [t |-> "symbol", description |-> description]
JsError(name, message, stk) ==
    [t |-> "error", name |-> name, message |-> message, stack |-> stk]

\* Number::toString for the integers.
Digits == <<"0", "1", "2", "3", "4", "5", "6", "7", "8", "9">>

RECURSIVE NatToString(_)
NatToString(n) ==
    IF n < 10 THEN Digits[n + 1]
    ELSE NatToString(n \div 10) \o Digits[(n % 10) + 1]

NumberToString(n) == IF n < 0 THEN "-" \o NatToString(-n) ELSE NatToString(n)

\* `${ v }`, the string conversion a template literal applies to a value that
\* is not an Error: the string, or a thrown TypeError.  An array joins its
\* elements with ",", null and undefined elements giving ''; a plain object
\* gives "[object Object]".
RECURSIVE TemplateString(_)
TemplateString(v) ==
    CASE v.t = "undefined" -> [threw |-> FALSE, str |-> "undefined"]
      [] v.t = "null" -> [threw |-> FALSE, str |-> "null"]
      [] v.t = "number" -> [threw |-> FALSE, str |-> NumberToString(v.n)]
      [] v.t = "boolean" ->
            [threw |-> FALSE, str |-> IF v.b THEN "true" ELSE "false"]
      [] v.t = "string" -> [threw |-> FALSE, str |-> v.s]
      [] v.t = "symbol" -> [threw |-> TRUE, str |-> ""]
      [] v.t = "object" -> [threw |-> FALSE, str |-> "[object Object]"]
      [] v.t = "array" ->
            LET parts == [i \in 1..Len(v.items) |->
                            IF v.items[i].t \in {"undefined", "null"}
                            THEN [threw |-> FALSE, str |-> ""]
                            ELSE TemplateString(v.items[i])]
            IN  [threw |-> \E i \in 1..Len(parts) : parts[i].threw,
                 str |-> Join([i \in 1..Len(parts) |-> parts[i].str], ",")]

\* fromNativeError returns the fields of the new GeneralError, or throws
\* what the template literal throws (ret is then not returned).
fromNativeError(error, source, stk) ==
    IF error.t = "error"
    THEN [threw |-> FALSE,
          ret |-> GeneralError(error.message, Some(error.name), error.stack,
                               source, stk)]
    ELSE LET m == TemplateString(error)
         IN  IF m.threw
             THEN [threw |-> TRUE,
                   ret |-> GeneralError("", Undefined, Some(""), Undefined, stk)]
             ELSE [threw |-> FALSE,
                   ret |-> GeneralError(m.str, Undefined, Undefined, source, stk)]

---------------------------------------------------------------------------
(* ResultContainer.ts                                                      *)

\* An element of an errors argument: a string or a reference to a GeneralError.
ErrString(s) == [isString |-> TRUE, str |-> s, ref |-> 0]
ErrRef(r) == [isString |-> FALSE, str |-> "", ref |-> r]

\* convertError with `source || error.source` in place of
\* `error.source || source`.
convertErrorArgumentFirst(heap, error, source, stk) ==
    LET h == IF error.isString
             THEN New(heap, GeneralError(error.str, Undefined, Undefined, source, stk))
             ELSE LET bag == toBag(heap[error.ref])
                  IN  New(heap, GeneralError(bag.message, Some(bag.code),
                                             Some(bag.location),
                                             OrElse(Nullish(source, ""),
                                                    Some(heap[error.ref].source)),
                                             stk))
    IN  [heap |-> h, ref |-> Len(h)]

\* Returns the heap after the call and the reference of the new record.
convertError(heap, error, source, stk) ==
    LET h == IF error.isString
             THEN New(heap, GeneralError(error.str, Undefined, Undefined, source, stk))
             ELSE LET bag == toBag(heap[error.ref])
                  IN  New(heap, GeneralError(bag.message, Some(bag.code),
                                             Some(bag.location),
                                             OrElse(heap[error.ref].source, source),
                                             stk))
    IN  [heap |-> h, ref |-> Len(h)]

\* errors.map(e => convertError(e, source))
RECURSIVE mapConvertError(_, _, _, _)
mapConvertError(heap, errors, source, stk) ==
    IF Len(errors) = 0 THEN [heap |-> heap, refs |-> <<>>]
    ELSE LET c == convertError(heap, Head(errors), source, stk)
             rest == mapConvertError(c.heap, Tail(errors), source, stk)
         IN  [heap |-> rest.heap, refs |-> <<c.ref>> \o rest.refs]

success(heap, data) ==
    [heap |-> heap, out |-> [success |-> TRUE, data |-> data]]

\* errors is one string or record ([isArray |-> FALSE, items |-> <<e>>]) or
\* an array of them.
failure(heap, errors, source, stk) ==
    IF ~errors.isArray
    THEN LET c == convertError(heap, errors.items[1], source, stk)
         IN  [heap |-> c.heap, out |-> [success |-> FALSE, errors |-> <<c.ref>>]]
    ELSE LET m == mapConvertError(heap, errors.items, source, stk)
         IN  [heap |-> m.heap, out |-> [success |-> FALSE, errors |-> m.refs]]

NoValueMessage == "No value for data was provided, but no errors were either."

\* JavaScript's falsy values.
Falsy(data) ==
    \/ data.t \in {"undefined", "null"}
    \/ data.t = "number" /\ data.n = 0
    \/ data.t = "boolean" /\ ~data.b
    \/ data.t = "string" /\ data.s = ""

\* wrap with `!data` in place of `data === undefined`.
wrapFalsy(heap, data, errors, source, stk) ==
    IF errors.present /\ Len(errors.items) > 0
    THEN failure(heap, [isArray |-> TRUE, items |-> errors.items], source, stk)
    ELSE IF Falsy(data)
    THEN LET h == New(heap, GeneralError(NoValueMessage, Some("UnknownError"),
                                         Undefined, source, stk))
         IN  failure(h, [isArray |-> FALSE, items |-> <<ErrRef(Len(h))>>],
                     Undefined, stk)
    ELSE success(heap, data)

\* errors is an array of strings and records, or absent ([present |-> FALSE]).
wrap(heap, data, errors, source, stk) ==
    IF errors.present /\ Len(errors.items) > 0
    THEN failure(heap, [isArray |-> TRUE, items |-> errors.items], source, stk)
    ELSE IF data = JsUndefined
    THEN LET h == New(heap, GeneralError(NoValueMessage, Some("UnknownError"),
                                         Undefined, source, stk))
         IN  failure(h, [isArray |-> FALSE, items |-> <<ErrRef(Len(h))>>],
                     Undefined, stk)
    ELSE success(heap, data)

\* The forEach loop of collect and collectAny.
RECURSIVE partitionResults(_, _, _)
partitionResults(rs, errors, data) ==
    IF Len(rs) = 0 THEN [errors |-> errors, data |-> data]
    ELSE IF Head(rs).success
    THEN partitionResults(Tail(rs), errors, Append(data, Head(rs).data))
    ELSE partitionResults(Tail(rs), errors \o Head(rs).errors, data)

AsErrors(refs) == [i \in 1..Len(refs) |-> ErrRef(refs[i])]

\* Array.prototype.reverse
Reverse(xs) == [i \in 1..Len(xs) |-> xs[Len(xs) + 1 - i]]

\* collect with data.unshift in place of data.push.
collectUnshift(heap, rs, source, stk) ==
    LET p == partitionResults(rs, <<>>, <<>>)
    IN  wrap(heap, JsArray(Reverse(p.data)),
             [present |-> TRUE, items |-> AsErrors(p.errors)], source, stk)

collect(heap, rs, source, stk) ==
    LET p == partitionResults(rs, <<>>, <<>>)
    IN  wrap(heap, JsArray(p.data),
             [present |-> TRUE, items |-> AsErrors(p.errors)], source, stk)

\* collectAny deciding on errors.length === 0 in place of data.length > 0.
collectAnyNoErrors(heap, rs, source, stk) ==
    LET p == partitionResults(rs, <<>>, <<>>)
    IN  IF Len(p.errors) = 0
        THEN success(heap, JsArray(p.data))
        ELSE failure(heap, [isArray |-> TRUE, items |-> AsErrors(p.errors)],
                     source, stk)

collectAny(heap, rs, source, stk) ==
    LET p == partitionResults(rs, <<>>, <<>>)
    IN  IF Len(p.data) > 0
        THEN success(heap, JsArray(p.data))
        ELSE failure(heap, [isArray |-> TRUE, items |-> AsErrors(p.errors)],
                     source, stk)

\* The for-of loop of compose and composeAny over the entries ([key, value]
\* pairs, in the iteration order of the Map or of Object.entries).
RECURSIVE partitionEntries(_, _, _)
partitionEntries(es, errors, result) ==
    IF Len(es) = 0 THEN [errors |-> errors, result |-> result]
    ELSE IF Head(es).value.success
    THEN partitionEntries(Tail(es), errors,
                          SetProperty(result, Head(es).key, Head(es).value.data))
    ELSE partitionEntries(Tail(es), errors \o Head(es).value.errors, result)

compose(heap, es, source, stk) ==
    LET p == partitionEntries(es, <<>>, <<>>)
    IN  wrap(heap, JsObject(p.result),
             [present |-> TRUE, items |-> AsErrors(p.errors)], source, stk)

\* composeAny deciding on errors.length === 0 in place of the keys of data.
composeAnyNoErrors(heap, es, source, stk) ==
    LET p == partitionEntries(es, <<>>, <<>>)
    IN  IF Len(p.errors) = 0
        THEN success(heap, JsObject(p.result))
        ELSE failure(heap, [isArray |-> TRUE, items |-> AsErrors(p.errors)],
                     source, stk)

composeAny(heap, es, source, stk) ==
    LET p == partitionEntries(es, <<>>, <<>>)
    IN  IF Len(p.result) > 0
        THEN success(heap, JsObject(p.result))
        ELSE failure(heap, [isArray |-> TRUE, items |-> AsErrors(p.errors)],
                     source, stk)

\* unwrap formatting result.errors as they are, without convertError.
unwrapUnconverted(heap, result, source, stk) ==
    IF result.success
    THEN [heap |-> heap, threw |-> FALSE, value |-> result.data, message |-> ""]
    ELSE [heap |-> heap, threw |-> TRUE, value |-> JsUndefined,
          message |-> toString([isArray |-> TRUE,
                                items |-> [i \in 1..Len(result.errors) |->
                                             heap[result.errors[i]]]],
                               "\n")]

\* unwrap returns ([threw |-> FALSE]) or throws an Error with a message.
unwrap(heap, result, source, stk) ==
    IF result.success
    THEN [heap |-> heap, threw |-> FALSE, value |-> result.data, message |-> ""]
    ELSE LET m == mapConvertError(heap, AsErrors(result.errors), source, stk)
         IN  [heap |-> m.heap, threw |-> TRUE, value |-> JsUndefined,
              message |-> toString([isArray |-> TRUE,
                                    items |-> [i \in 1..Len(m.refs) |-> m.heap[m.refs[i]]]],
                                   "\n")]

---------------------------------------------------------------------------
(* The caller: the values it passes to the library.                        *)

\* An element of an errors argument by value: a string, or the fields of a
\* GeneralError the caller has constructed.
NoFields == [code |-> "", message |-> "", location |-> "", source |-> ""]
StrItem(s) == [isString |-> TRUE, str |-> s, rec |-> NoFields]
RecItem(fields) == [isString |-> FALSE, str |-> "", rec |-> fields]

PlainError == [code |-> "", message |-> "bad input", location |-> "", source |-> ""]
CodedError == [code |-> "E7", message |-> "denied", location |-> "", source |-> ""]
FullError == [code |-> "E42", message |-> "no row", location |-> "db.ts:7", source |-> "db"]

ErrorItems ==
    {StrItem("timeout"), RecItem(PlainError), RecItem(CodedError), RecItem(FullError)}

SourceArgs == {Undefined, Some(""), Some("api"), Some("ui")}

Stacks == {"", "at run (app.js:1:1)"}

KeyNames == <<"a", "b", "c", "d", "e">>

WrapData == {JsUndefined, JsNull, JsNumber(0), JsBoolean(FALSE), JsString(""),
             JsArray(<<>>), JsNumber(1)}

\* The sequences over S of length at most n.
SeqsUpTo(S, n) == UNION {[1..k -> S] : k \in 0..n}

\* The GeneralErrors handed to GeneralError.toString, and the delimiters.
FormatErrors ==
    [code : {"", "E42"}, message : {"no row", "bad input"},
     location : {"", "db.ts:7"}, source : {"", "db"}]

FormatArgs ==
    {[isArray |-> FALSE, items |-> <<e>>] : e \in FormatErrors}
    \cup {[isArray |-> TRUE, items |-> es] : es \in SeqsUpTo(FormatErrors, MaxFormat)}

Delimiters == {"\n", "; "}

\* The arguments of failure: one item, or an array of items.
FailureArgs ==
    {[isArray |-> FALSE, items |-> <<e>>] : e \in ErrorItems}
    \cup {[isArray |-> TRUE, items |-> es] : es \in SeqsUpTo(ErrorItems, MaxErrors)}

\* The errors argument of wrap: omitted, or an array of items.
WrapErrors ==
    {[present |-> FALSE, items |-> <<>>]}
    \cup {[present |-> TRUE, items |-> es] : es \in SeqsUpTo(ErrorItems, MaxErrors)}

\* The caller's GeneralError objects of an errors argument, allocated in
\* order, and the argument with references in their place.
RECURSIVE loadItems(_, _)
loadItems(heap, items) ==
    IF Len(items) = 0 THEN [heap |-> heap, items |-> <<>>]
    ELSE LET it == Head(items)
             h == IF it.isString THEN heap ELSE New(heap, it.rec)
             e == IF it.isString THEN ErrString(it.str) ELSE ErrRef(Len(h))
             rest == loadItems(h, Tail(items))
         IN  [heap |-> rest.heap, items |-> <<e>> \o rest.items]

\* The GeneralError objects of the ResultContainers the caller passes in.
RECURSIVE loadResults(_, _)
loadResults(heap, rs) ==
    IF Len(rs) = 0 THEN [heap |-> heap, outs |-> <<>>]
    ELSE LET r == Head(rs)
             h == IF r.success THEN heap ELSE heap \o r.errors
             o == IF r.success THEN r
                  ELSE [success |-> FALSE,
                        errors |-> [i \in 1..Len(r.errors) |-> Len(heap) + i]]
             rest == loadResults(h, Tail(rs))
         IN  [heap |-> rest.heap, outs |-> <<o>> \o rest.outs]

\* A ResultContainer by value.
Deref(heap, out) ==
    IF out.success THEN out
    ELSE [success |-> FALSE,
          errors |-> [i \in 1..Len(out.errors) |-> heap[out.errors[i]]]]

\* What failure(errors, source) returns to the caller, by value.
FailureOf(errors, source, stk) ==
    LET l == loadItems(<<>>, errors.items)
        r == failure(l.heap, [isArray |-> errors.isArray, items |-> l.items],
                     source, stk)
    IN  Deref(r.heap, r.out)

\* The ResultContainers the caller aggregates and unwraps: results of
\* success and failure.
HeldArgs ==
    {[isArray |-> TRUE, items |-> <<>>],
     [isArray |-> FALSE, items |-> <<StrItem("timeout")>>],
     [isArray |-> FALSE, items |-> <<RecItem(FullError)>>],
     [isArray |-> FALSE, items |-> <<RecItem(CodedError)>>],
     [isArray |-> TRUE, items |-> <<RecItem(PlainError), RecItem(FullError)>>]}

Held(stk) ==
    {success(<<>>, JsNumber(n)).out : n \in {1, 2}}
    \cup {FailureOf(e, s, stk) : e \in HeldArgs, s \in {Undefined, Some("api")}}

\* The key orders tried for n entries: a, b, c... and its reverse.
KeySeqs(n) == {[i \in 1..n |-> KeyNames[i]], [i \in 1..n |-> KeyNames[n + 1 - i]]}

\* The entries of a Map or plain object, in iteration order.
Entries(ks, rs) == [i \in 1..Len(rs) |-> [key |-> ks[i], value |-> rs[i]]]

\* The values handed to fromNativeError: whatever a catch clause receives.
ErrorStacks == {Undefined, Some(""), Some("TypeError: x is null\n    at f (lib.js:2:5)")}

NativeErrors ==
    {JsError(n, m, st) : n \in {"Error", "TypeError"},
                         m \in {"", "x is null"}, st \in ErrorStacks}

ThrownValues ==
    {JsUndefined, JsNull, JsNumber(0), JsNumber(404), JsNumber(-1),
     JsBoolean(FALSE), JsString(""), JsString("boom"), JsSymbol("oops"),
     JsObject(<<>>), JsObject(<<[key |-> "a", value |-> JsNumber(1)]>>),
     JsObject(<<[key |-> "message", value |-> JsString("x is null")],
                [key |-> "name", value |-> JsString("TypeError")],
                [key |-> "stack", value |-> JsString("at f (lib.js:2:5)")]>>),
     JsArray(<<>>), JsArray(<<JsNumber(1), JsNull, JsString("b")>>)}

NoCall == [op |-> "none"]

\* No call has been made yet.
Idle == last = NoCall

Init ==
    /\ stack \in Stacks
    /\ last = NoCall

CallSuccess(data) ==
    /\ last' = [op |-> "success", data |-> data, ret |-> success(<<>>, data).out]
    /\ UNCHANGED stack

CallFailure(errors, source) ==
    /\ LET l == loadItems(<<>>, errors.items)
           r == failure(l.heap, [isArray |-> errors.isArray, items |-> l.items],
                        source, stack)
       IN  last' = [op |-> "failure", errors |-> errors, source |-> source,
                    heap0 |-> l.heap, heap1 |-> r.heap,
                    out |-> r.out, ret |-> Deref(r.heap, r.out)]
    /\ UNCHANGED stack

CallWrap(data, errors, source) ==
    /\ LET l == loadItems(<<>>, errors.items)
           r == wrap(l.heap, data, [present |-> errors.present, items |-> l.items],
                     source, stack)
       IN  last' = [op |-> "wrap", data |-> data, errors |-> errors,
                    source |-> source, heap0 |-> l.heap, heap1 |-> r.heap,
                    out |-> r.out, ret |-> Deref(r.heap, r.out)]
    /\ UNCHANGED stack

\* The return of an aggregation: l holds the heap and the arguments it was
\* called with, r the heap and the ResultContainer it returned.
Called(op, input, source, l, r) ==
    /\ last' = [op |-> op, input |-> input, source |-> source,
                heap0 |-> l.heap, heap1 |-> r.heap,
                out |-> r.out, ret |-> Deref(r.heap, r.out)]
    /\ UNCHANGED stack

CallCollect(rs, source) ==
    LET l == loadResults(<<>>, rs)
    IN  Called("collect", rs, source, l, collect(l.heap, l.outs, source, stack))

CallCollectAny(rs, source) ==
    LET l == loadResults(<<>>, rs)
    IN  Called("collectAny", rs, source, l,
               collectAny(l.heap, l.outs, source, stack))

CallCompose(ks, rs, source) ==
    LET l == loadResults(<<>>, rs)
    IN  Called("compose", Entries(ks, rs), source, l,
               compose(l.heap, Entries(ks, l.outs), source, stack))

CallComposeAny(ks, rs, source) ==
    LET l == loadResults(<<>>, rs)
    IN  Called("composeAny", Entries(ks, rs), source, l,
               composeAny(l.heap, Entries(ks, l.outs), source, stack))

CallUnwrap(result, source) ==
    /\ LET l == loadResults(<<>>, <<result>>)
           r == unwrap(l.heap, l.outs[1], source, stack)
       IN  last' = [op |-> "unwrap", input |-> result, source |-> source,
                    heap0 |-> l.heap, heap1 |-> r.heap,
                    threw |-> r.threw, value |-> r.value, message |-> r.message]
    /\ UNCHANGED stack

CallToString(data, delimiter) ==
    /\ last' = [op |-> "toString", data |-> data, delimiter |-> delimiter,
                ret |-> toString(data, delimiter)]
    /\ UNCHANGED stack

CallFromNativeError(error, source) ==
    /\ LET r == fromNativeError(error, source, stack)
       IN  last' = [op |-> "fromNativeError", error |-> error, source |-> source,
                    threw |-> r.threw, ret |-> r.ret]
    /\ UNCHANGED stack

\* One call of one exported function, on arguments the caller chooses.
Next ==
    \/ Idle /\ \E d \in WrapData : CallSuccess(d)
    \/ Idle /\ \E e \in FailureArgs, s \in SourceArgs : CallFailure(e, s)
    \/ Idle /\ \E d \in WrapData, e \in WrapErrors, s \in SourceArgs :
                  CallWrap(d, e, s)
    \/ Idle /\ \E rs \in SeqsUpTo(Held(stack), MaxResults), s \in SourceArgs :
                  CallCollect(rs, s)
    \/ Idle /\ \E rs \in SeqsUpTo(Held(stack), MaxResults), s \in SourceArgs :
                  CallCollectAny(rs, s)
    \/ Idle /\ \E rs \in SeqsUpTo(Held(stack), MaxResults), s \in SourceArgs :
                  \E ks \in KeySeqs(Len(rs)) : CallCompose(ks, rs, s)
    \/ Idle /\ \E rs \in SeqsUpTo(Held(stack), MaxResults), s \in SourceArgs :
                  \E ks \in KeySeqs(Len(rs)) : CallComposeAny(ks, rs, s)
    \/ Idle /\ \E r \in Held(stack), s \in SourceArgs : CallUnwrap(r, s)
    \/ Idle /\ \E d \in FormatArgs, dl \in Delimiters : CallToString(d, dl)
    \/ Idle /\ \E e \in NativeErrors \cup ThrownValues, s \in SourceArgs :
                  CallFromNativeError(e, s)

Spec == Init /\ [][Next]_vars

---------------------------------------------------------------------------
(* Chains of calls: a Failure is built, and each further call takes the    *)
(* Failure the call before it returned.  `last` holds the call just made,  *)
(* its depth in the chain, what it returned (or threw), and for every      *)
(* record of the returned Failure its trail: the record as it was first    *)
(* made and the source arguments of the calls it has passed through since. *)

\* The call stack a fresh Error captures at the k-th call of a chain.
ChainStack(k) ==
    "at step" \o NatToString(k) \o " (app.js:" \o NatToString(10 + k) \o ":1)"

\* The errors the first failure of a chain is built from.
ChainArgs ==
    {[isArray |-> FALSE, items |-> <<StrItem("timeout")>>],
     [isArray |-> FALSE, items |-> <<RecItem(FullError)>>],
     [isArray |-> TRUE, items |-> <<RecItem(PlainError), RecItem(FullError)>>]}

\* The source arguments of the calls of a chain.
ChainSources == {Undefined, Some("api"), Some("ui")}

\* The record a string or GeneralError item is before any back-fill, made
\* where the stack is stk.
Origin(item, stk) ==
    IF item.isString
    THEN [code |-> "", message |-> item.str, location |-> getLocation(stk),
          source |-> ""]
    ELSE item.rec

\* The record wrap makes when it has neither data nor errors.
NoValueItem(stk) ==
    RecItem([code |-> "UnknownError", message |-> NoValueMessage,
             location |-> getLocation(stk), source |-> ""])

\* The trails of the records of failure(items, source).
Originate(items, source, stk) ==
    [i \in 1..Len(items) |->
        [origin |-> Origin(items[i], stk), sources |-> <<source>>]]

\* The trails after one more enclosing call with this source argument.
Enclosed(trail, source) ==
    [i \in 1..Len(trail) |->
        [origin |-> trail[i].origin,
         sources |-> Append(trail[i].sources, source)]]

\* The ResultContainers a chained Failure is aggregated with: a Failure
\* built elsewhere without a source, and a Success.
BusyError == [code |-> "E9", message |-> "busy", location |-> "q.ts:3", source |-> ""]
SiblingArgs == [isArray |-> FALSE, items |-> <<RecItem(BusyError)>>]
Sibling == FailureOf(SiblingArgs, Undefined, "at poll (q.js:3:7)")
SiblingTrail == Originate(SiblingArgs.items, Undefined, "at poll (q.js:3:7)")
Succeeded == success(<<>>, JsNumber(1)).out

\* The arrays a chained Failure cur is aggregated in, with the trails of
\* the records of each element.
Arrangements(cur, trail) ==
    {[rs |-> <<cur, Sibling>>, trails |-> trail \o SiblingTrail],
     [rs |-> <<Sibling, cur>>, trails |-> SiblingTrail \o trail],
     [rs |-> <<Succeeded, cur>>, trails |-> trail]}

\* The errors of a Failure, as the errors argument of failure or wrap.
AsItems(result) == [i \in 1..Len(result.errors) |-> RecItem(result.errors[i])]

Link(op, depth, source, ret, trail) ==
    [op |-> op, depth |-> depth, source |-> source, ret |-> ret,
     threw |-> FALSE, message |-> "", trail |-> trail]

\* A chain goes on from a Failure that a call returned.
Chaining ==
    /\ last # NoCall
    /\ last.op # "unwrap"
    /\ ~last.ret.success
    /\ last.depth < MaxDepth

InitChain ==
    /\ stack = ChainStack(0)
    /\ last = NoCall

StartFailure(errors, source) ==
    /\ last' = Link("failure", 0, source, FailureOf(errors, source, stack),
                    Originate(errors.items, source, stack))
    /\ stack' = ChainStack(1)

\* wrap() with neither data nor errors.
StartWrap(source) ==
    /\ LET r == wrap(<<>>, JsUndefined, [present |-> FALSE, items |-> <<>>],
                     source, stack)
       IN  last' = Link("wrap", 0, source, Deref(r.heap, r.out),
                        Originate(<<NoValueItem(stack)>>, source, stack))
    /\ stack' = ChainStack(1)

\* failure(result.errors, source)
ChainFailure(source) ==
    /\ last' = Link("failure", last.depth + 1, source,
                    FailureOf([isArray |-> TRUE, items |-> AsItems(last.ret)],
                              source, stack),
                    Enclosed(last.trail, source))
    /\ stack' = ChainStack(last.depth + 2)

\* wrap(undefined, result.errors, source)
ChainWrap(source) ==
    /\ LET l == loadItems(<<>>, AsItems(last.ret))
           r == wrap(l.heap, JsUndefined, [present |-> TRUE, items |-> l.items],
                     source, stack)
       IN  last' = Link("wrap", last.depth + 1, source, Deref(r.heap, r.out),
                        IF Len(last.ret.errors) > 0
                        THEN Enclosed(last.trail, source)
                        ELSE Originate(<<NoValueItem(stack)>>, source, stack))
    /\ stack' = ChainStack(last.depth + 2)

\* The return of an aggregation of the arrangement a.
Chained(op, a, source, r) ==
    /\ LET ret == Deref(r.heap, r.out)
       IN  last' = Link(op, last.depth + 1, source, ret,
                        IF ret.success THEN <<>> ELSE Enclosed(a.trails, source))
    /\ stack' = ChainStack(last.depth + 2)

ChainCollect(a, source) ==
    LET l == loadResults(<<>>, a.rs)
    IN  Chained("collect", a, source, collect(l.heap, l.outs, source, stack))

ChainCollectAny(a, source) ==
    LET l == loadResults(<<>>, a.rs)
    IN  Chained("collectAny", a, source,
                collectAny(l.heap, l.outs, source, stack))

ChainCompose(a, source) ==
    LET l == loadResults(<<>>, a.rs)
    IN  Chained("compose", a, source,
                compose(l.heap, Entries(KeyNames, l.outs), source, stack))

ChainComposeAny(a, source) ==
    LET l == loadResults(<<>>, a.rs)
    IN  Chained("composeAny", a, source,
                composeAny(l.heap, Entries(KeyNames, l.outs), source, stack))

\* unwrap(result, source) ends the chain: it throws.
ChainUnwrap(source) ==
    /\ LET l == loadResults(<<>>, <<last.ret>>)
           r == unwrap(l.heap, l.outs[1], source, stack)
       IN  last' = [op |-> "unwrap", depth |-> last.depth + 1,
                    source |-> source, ret |-> last.ret, threw |-> r.threw,
                    message |-> r.message,
                    trail |-> Enclosed(last.trail, source)]
    /\ stack' = ChainStack(last.depth + 2)

NextChain ==
    \/ Idle /\ \E e \in ChainArgs, s \in SourceArgs : StartFailure(e, s)
    \/ Idle /\ \E s \in SourceArgs : StartWrap(s)
    \/ Chaining /\ \E s \in ChainSources : ChainFailure(s)
    \/ Chaining /\ \E s \in ChainSources : ChainWrap(s)
    \/ Chaining /\ \E a \in Arrangements(last.ret, last.trail), s \in ChainSources :
                      ChainCollect(a, s)
    \/ Chaining /\ \E a \in Arrangements(last.ret, last.trail), s \in ChainSources :
                      ChainCollectAny(a, s)
    \/ Chaining /\ \E a \in Arrangements(last.ret, last.trail), s \in ChainSources :
                      ChainCompose(a, s)
    \/ Chaining /\ \E a \in Arrangements(last.ret, last.trail), s \in ChainSources :
                      ChainComposeAny(a, s)
    \/ Chaining /\ \E s \in ChainSources : ChainUnwrap(s)

SpecChain == InitChain /\ [][NextChain]_vars

---------------------------------------------------------------------------
(* Vocabulary of the properties.                                           *)

Combinators == {"failure", "wrap", "collect", "collectAny", "compose", "composeAny"}

\* The errors of the failing ResultContainers of a sequence, concatenated in
\* sequence order.
RECURSIVE FailingErrors(_)
FailingErrors(rs) ==
    IF Len(rs) = 0 THEN <<>>
    ELSE (IF Head(rs).success THEN <<>> ELSE Head(rs).errors)
         \o FailingErrors(Tail(rs))

\* The data of the succeeding ResultContainers of a sequence, in sequence order.
RECURSIVE SucceedingData(_)
SucceedingData(rs) ==
    IF Len(rs) = 0 THEN <<>>
    ELSE (IF Head(rs).success THEN <<Head(rs).data>> ELSE <<>>)
         \o SucceedingData(Tail(rs))

\* The key/data pairs of the succeeding entries of a mapping, in iteration
\* order.
RECURSIVE SucceedingEntries(_)
SucceedingEntries(es) ==
    IF Len(es) = 0 THEN <<>>
    ELSE (IF Head(es).value.success
          THEN <<[key |-> Head(es).key, value |-> Head(es).value.data]>>
          ELSE <<>>)
         \o SucceedingEntries(Tail(es))

AnyFailed(rs) == \E i \in 1..Len(rs) : ~rs[i].success
AnySucceeded(rs) == \E i \in 1..Len(rs) : rs[i].success

\* The values of the entries of a mapping, in iteration order.
Values(es) == [i \in 1..Len(es) |-> es[i].value]

\* A record whose source is empty takes the source argument; nothing else
\* of it changes.
BackFilled(e, source) ==
    [e EXCEPT !.source = IF e.source # "" THEN e.source
                         ELSE IF source.defined THEN source.value ELSE ""]

BackFilledAll(es, source) == [i \in 1..Len(es) |-> BackFilled(es[i], source)]

\* The source argument as a string: '' when it is omitted.
Given(source) == IF source.defined THEN source.value ELSE ""

\* Occurrences of the character c in str; suffix test; strs joined by d,
\* built from the left.
CountOf(c, str) == Cardinality({i \in 1..Len(str) : SubSeq(str, i, i) = c})

EndsWith(str, suffix) ==
    /\ Len(str) >= Len(suffix)
    /\ SubSeq(str, Len(str) - Len(suffix) + 1, Len(str)) = suffix

RECURSIVE Delimited(_, _)
Delimited(strs, d) ==
    IF Len(strs) = 0 THEN ""
    ELSE IF Len(strs) = 1 THEN strs[1]
    ELSE Delimited(SubSeq(strs, 1, Len(strs) - 1), d) \o d \o strs[Len(strs)]

Single(e) == [isArray |-> FALSE, items |-> <<e>>]

---------------------------------------------------------------------------
(* C1: every Failure returned by failure, wrap, collect, collectAny,       *)
(* compose or composeAny carries at least one error record.                *)
C1_FailureHasErrors ==
    (last.op \in Combinators /\ ~last.ret.success) => Len(last.ret.errors) >= 1

---------------------------------------------------------------------------
(* C2: when some input of collect failed, collect returns a Failure whose  *)
(* errors are, field by field, the failing inputs' errors concatenated in  *)
(* input order.                                                            *)
C2_CollectConcatenatesErrors ==
    (last.op = "collect" /\ AnyFailed(last.input))
    => (~last.ret.success /\ last.ret.errors = FailingErrors(last.input))

---------------------------------------------------------------------------
(* C3: when no input of collect failed, collect returns Success with the   *)
(* inputs' data in input order; for the empty input, Success with an empty *)
(* sequence.                                                               *)
C3_CollectAllSucceeded ==
    (last.op = "collect" /\ ~AnyFailed(last.input))
    => last.ret = [success |-> TRUE,
                   data |-> JsArray([i \in 1..Len(last.input) |-> last.input[i].data])]

C3_Witness ==
    /\ last.op = "collect"
    /\ Len(last.input) = 2
    /\ ~AnyFailed(last.input)
    /\ last.input[1].data # last.input[2].data
    /\ last.ret.success

---------------------------------------------------------------------------
(* C4: collectAny returns Success exactly when some input succeeded, with  *)
(* the succeeding inputs' data in input order; otherwise a Failure whose   *)
(* errors are the inputs' errors concatenated in input order.              *)
C4_CollectAnyOriginal ==
    last.op = "collectAny"
    => /\ last.ret.success <=> AnySucceeded(last.input)
       /\ last.ret.success => last.ret.data = JsArray(SucceedingData(last.input))
       /\ ~last.ret.success => last.ret.errors = FailingErrors(last.input)

(* C4 as amended: in the Failure, a record whose own source is empty       *)
(* carries collectAny's source argument; the rest is as stated.            *)
C4_CollectAnyBackFilled ==
    last.op = "collectAny"
    => /\ last.ret.success <=> AnySucceeded(last.input)
       /\ last.ret.success => last.ret.data = JsArray(SucceedingData(last.input))
       /\ ~last.ret.success
          => last.ret.errors = BackFilledAll(FailingErrors(last.input), last.source)

C4_Witness ==
    /\ last.op = "collectAny"
    /\ Len(last.input) = 2
    /\ ~AnySucceeded(last.input)
    /\ \E i \in 1..Len(FailingErrors(last.input)) :
          FailingErrors(last.input)[i].source = ""
    /\ last.source = Some("api")
    /\ ~last.ret.success
    /\ Len(last.ret.errors) >= 2

---------------------------------------------------------------------------
(* C5: compose is all-or-nothing: when some entry failed it returns a      *)
(* Failure whose errors are the failing entries' errors concatenated in    *)
(* iteration order; when none failed, Success with a mapping that binds    *)
(* every input key to its entry's data.                                    *)
C5_ComposeAllOrNothing ==
    last.op = "compose"
    => IF AnyFailed(Values(last.input))
       THEN /\ ~last.ret.success
            /\ last.ret.errors = FailingErrors(Values(last.input))
       ELSE last.ret =
              [success |-> TRUE,
               data |-> JsObject([i \in 1..Len(last.input) |->
                                    [key |-> last.input[i].key,
                                     value |-> last.input[i].value.data]])]

---------------------------------------------------------------------------
(* C6: composeAny returns Success exactly when some entry succeeded, with  *)
(* a mapping of exactly the succeeding key/data pairs; otherwise a Failure *)
(* whose errors are the entries' errors concatenated in iteration order.   *)
C6_ComposeAnyOriginal ==
    last.op = "composeAny"
    => /\ last.ret.success <=> AnySucceeded(Values(last.input))
       /\ last.ret.success
          => last.ret.data = JsObject(SucceedingEntries(last.input))
       /\ ~last.ret.success
          => last.ret.errors = FailingErrors(Values(last.input))

(* C6 as amended: in the Failure, a record whose own source is empty       *)
(* carries composeAny's source argument; the rest is as stated.            *)
C6_ComposeAnyBackFilled ==
    last.op = "composeAny"
    => /\ last.ret.success <=> AnySucceeded(Values(last.input))
       /\ last.ret.success
          => last.ret.data = JsObject(SucceedingEntries(last.input))
       /\ ~last.ret.success
          => last.ret.errors =
               BackFilledAll(FailingErrors(Values(last.input)), last.source)

C6_Witness ==
    /\ last.op = "composeAny"
    /\ Len(last.input) = 2
    /\ last.input[1].key = "b"
    /\ ~AnySucceeded(Values(last.input))
    /\ \E i \in 1..Len(FailingErrors(Values(last.input))) :
          FailingErrors(Values(last.input))[i].source = ""
    /\ last.source = Some("ui")
    /\ ~last.ret.success
    /\ Len(last.ret.errors) >= 2

---------------------------------------------------------------------------
(* C7: wrap decides in order: non-empty errors give failure(errors,        *)
(* source) whatever the data; else undefined data gives a Failure with one *)
(* record, code "UnknownError" and the fixed message; else Success(data),  *)
(* also for null, 0, false, '' and [].                                     *)
C7_WrapPriority ==
    last.op = "wrap"
    => IF last.errors.present /\ Len(last.errors.items) > 0
       THEN last.ret = FailureOf([isArray |-> TRUE, items |-> last.errors.items],
                                 last.source, stack)
       ELSE IF last.data = JsUndefined
       THEN /\ ~last.ret.success
            /\ Len(last.ret.errors) = 1
            /\ last.ret.errors[1].code = "UnknownError"
            /\ last.ret.errors[1].message =
                 "No value for data was provided, but no errors were either."
       ELSE last.ret = [success |-> TRUE, data |-> last.data]

C7_Witness ==
    /\ last.op = "wrap"
    /\ last.data = JsNumber(0)
    /\ last.errors.present
    /\ Len(last.errors.items) = 0
    /\ last.ret = [success |-> TRUE, data |-> JsNumber(0)]

---------------------------------------------------------------------------
(* C8: unwrap of a Success returns its data, raises nothing and allocates  *)
(* nothing; unwrap of a Failure raises an Error whose message is the       *)
(* format of its records, each back-filled with the source argument where  *)
(* its own source is empty, joined by newline; every other function        *)
(* returns a ResultContainer.                                              *)
C8_Unwrap ==
    /\ last.op = "unwrap"
       => IF last.input.success
          THEN /\ ~last.threw
               /\ last.value = last.input.data
               /\ last.heap1 = last.heap0
          ELSE /\ last.threw
               /\ last.message =
                    toString([isArray |-> TRUE,
                              items |-> BackFilledAll(last.input.errors, last.source)],
                             "\n")
    /\ last.op \in Combinators \cup {"success"}
       => \/ DOMAIN last.ret = {"success", "data"} /\ last.ret.success
          \/ DOMAIN last.ret = {"success", "errors"} /\ ~last.ret.success

C8_Witness ==
    /\ last.op = "unwrap"
    /\ ~last.input.success
    /\ Len(last.input.errors) = 1
    /\ last.input.errors[1].code # ""
    /\ last.input.errors[1].source = ""
    /\ last.source = Some("api")
    /\ last.threw
    /\ last.message = "[E7 api] denied"

---------------------------------------------------------------------------
(* C9: failure returns a Failure with one record per input, in input       *)
(* order: a string gives a record with that message and the source         *)
(* argument; a record keeps message, code and location, keeps its own      *)
(* source when non-empty and takes the source argument otherwise; every    *)
(* returned record is a new object and the caller's records are unchanged. *)
C9_Failure ==
    last.op = "failure"
    => /\ ~last.ret.success
       /\ Len(last.ret.errors) = Len(last.errors.items)
       /\ \A i \in 1..Len(last.errors.items) :
            LET it == last.errors.items[i]
                e == last.ret.errors[i]
            IN  IF it.isString
                THEN /\ e.message = it.str
                     /\ e.source = Given(last.source)
                ELSE /\ e.message = it.rec.message
                     /\ e.code = it.rec.code
                     /\ e.location = it.rec.location
                     /\ e.source = IF it.rec.source # "" THEN it.rec.source
                                   ELSE Given(last.source)
       /\ Len(last.heap1) >= Len(last.heap0)
       /\ SubSeq(last.heap1, 1, Len(last.heap0)) = last.heap0
       /\ \A i \in 1..Len(last.out.errors) :
            /\ last.out.errors[i] > Len(last.heap0)
            /\ \A j \in 1..Len(last.out.errors) :
                 last.out.errors[i] = last.out.errors[j] => i = j

C9_Witness ==
    /\ last.op = "failure"
    /\ last.errors.isArray
    /\ Len(last.errors.items) = 2
    /\ last.errors.items[1].isString
    /\ ~last.errors.items[2].isString
    /\ last.errors.items[2].rec.source = "db"
    /\ last.source = Some("api")
    /\ last.ret.errors[1].source = "api"
    /\ last.ret.errors[2].source = "db"

---------------------------------------------------------------------------
(* C10: the format of one record has the "[code source] " bracket exactly  *)
(* when code is non-empty, the "[location] " bracket exactly when location *)
(* is non-empty, and ends with the message; the format of a sequence is    *)
(* the formats of its records joined by the delimiter, in order.           *)
C10_Format ==
    last.op = "toString"
    => IF ~last.data.isArray
       THEN LET e == last.data.items[1]
                codePart == "[" \o e.code \o " " \o e.source \o "] "
                locationPart == "[" \o e.location \o "] "
            IN  /\ CountOf("[", last.ret) =
                     (IF e.code # "" THEN 1 ELSE 0) + (IF e.location # "" THEN 1 ELSE 0)
                /\ EndsWith(last.ret, e.message)
                /\ last.ret =
                     (IF e.code # "" THEN codePart ELSE "")
                     \o (IF e.location # "" THEN locationPart ELSE "")
                     \o e.message
       ELSE last.ret =
              Delimited([i \in 1..Len(last.data.items) |->
                           toString(Single(last.data.items[i]), last.delimiter)],
                        last.delimiter)

C10_Witness ==
    /\ last.op = "toString"
    /\ ~last.data.isArray
    /\ last.data.items[1].code = ""
    /\ last.data.items[1].source = "db"
    /\ last.data.items[1].location # ""
    /\ last.ret = "[db.ts:7] no row"

---------------------------------------------------------------------------
(* C11: fromNativeError.                                                   *)

FromNative == last.op = "fromNativeError"
IsError(v) == v.t = "error"

\* C11: fromNativeError on a value that is not an Error returns a record
\* whose message is the stringified value and whose code and location are
\* both empty; on an Error it returns a record with the Error's message as
\* message, its name as code and its stack as location; in both cases a
\* supplied source becomes the record's source.
C11_FromNativeError ==
    FromNative =>
        /\ ~last.threw
        /\ last.source.defined => last.ret.source = last.source.value
        /\ IF IsError(last.error)
           THEN /\ last.ret.message = last.error.message
                /\ last.ret.code = last.error.name
                /\ last.error.stack.defined =>
                        last.ret.location = last.error.stack.value
           ELSE /\ last.ret.message = TemplateString(last.error).str
                /\ last.ret.code = ""
                /\ last.ret.location = ""

---------------------------------------------------------------------------
(* C12: source back-fill along a chain of calls.                           *)

\* The first non-empty source among optional strings, or ''.
RECURSIVE FirstWriter(_)
FirstWriter(sources) ==
    IF Len(sources) = 0 THEN ""
    ELSE IF Nullish(Head(sources), "") # "" THEN Head(sources).value
    ELSE FirstWriter(Tail(sources))

\* The record a trail leads to: message, code and location of the record as
\* first made; its own source when non-empty, else the first non-empty
\* source argument of the calls it passed through.
Survivor(t) ==
    [code |-> t.origin.code, message |-> t.origin.message,
     location |-> t.origin.location,
     source |-> FirstWriter(<<Some(t.origin.source)>> \o t.sources)]

InChain == last # NoCall

\* C12: along any chain of failure, wrap, collect, collectAny, compose,
\* composeAny and unwrap calls with arbitrary source arguments, the records
\* of every returned Failure (and the records unwrap formats into the
\* message it throws) are the originating records in order, each with its
\* message, code and location unchanged, and with the source it had when
\* non-empty, else the first non-empty source argument of the calls that
\* enclosed it, else ''.
C12_FirstWriterWins ==
    InChain =>
        IF last.op = "unwrap"
        THEN /\ last.threw
             /\ last.message =
                    Join([i \in 1..Len(last.trail) |->
                            toStringOne(Survivor(last.trail[i]))], "\n")
        ELSE ~last.ret.success =>
                /\ Len(last.ret.errors) = Len(last.trail)
                /\ \A i \in 1..Len(last.trail) :
                        last.ret.errors[i] = Survivor(last.trail[i])

\* Two calls deep, a Failure holds a record made without a source that met
\* no source, then "api", then "ui" and carries "api", next to a record
\* that keeps the source "db" it was made with.
C12_Witness ==
    /\ InChain
    /\ last.op # "unwrap"
    /\ ~last.ret.success
    /\ last.depth = 2
    /\ \E i, j \in 1..Len(last.ret.errors) :
            /\ last.trail[i].origin.source = ""
            /\ last.trail[i].sources = <<Undefined, Some("api"), Some("ui")>>
            /\ last.ret.errors[i].source = "api"
            /\ last.trail[j].origin.source = "db"
            /\ last.ret.errors[j].source = "db"

====
